---- MODULE Spec2Model ----
(***************************************************************************)
(* Model of src/xwalk-apkgen.js: the command-line driver that resolves the *)
(* configuration through nconf (environment, command line, JSON files),    *)
(* reads the extensions file, constructs App and Env concurrently, joins   *)
(* them with Q.all, and runs env.build.                                    *)
(*                                                                         *)
(* Every option value is a sequence of strings: a path is the sequence of  *)
(* its segments (an absolute path starts with the segment "/"), any other  *)
(* value is a one-element sequence.  <<>> stands for JavaScript undefined  *)
(* and <<"">> for the empty string.                                        *)
(***************************************************************************)
EXTENDS Integers, Sequences, FiniteSets, TLC

\* ------------------------------------------------------------------ bounds
\* largest number of records in an extensions file
MaxExt == 2
\* largest number of toolchain probes Env issues while it is constructed
MaxProbes == 2

\* ------------------------------------------------------------------ values
Undef == <<>>
EmptyString == <<"">>
True == <<"true">>

\* JavaScript truthiness of an option value: undefined and '' are falsy
Truthy(v) == v # Undef /\ v # EmptyString

\* ------------------------------------------------------------- option names
\* options that steer the script itself
ControlKeys == {"help", "app-config", "env-config", "ext-config"}
\* keys of App.CONFIG_DEFAULTS that the model follows
AppKeys == {"name", "appLocalPath", "appUrl"}
\* keys of Env.CONFIG_DEFAULTS that the model follows
EnvKeys == {"androidAPILevel"}
\* every option name of the model
Keys == ControlKeys \cup AppKeys \cup EnvKeys \cup {"outDir", "extensions"}

\* the defaults declared in cliOpts; optimist copies them into argv
CliDefault(k) ==
  CASE k = "outDir" -> <<"build">>
    [] k = "androidAPILevel" -> <<"19">>
    [] OTHER -> Undef

\* the map in which no option is set
NoOptions == [k \in Keys |-> Undef]

\* ------------------------------------------------------------------- paths
IsAbsolute(p) == Len(p) > 0 /\ p[1] = "/"

RECURSIVE NormSegs(_, _)
\* fold of the segments in segs onto acc: '' and '.' vanish, '..' removes the
\* segment before it (at the root it vanishes, in a relative path it stays)
NormSegs(acc, segs) ==
  IF segs = <<>> THEN acc
  ELSE LET s == Head(segs)
           rest == Tail(segs)
       IN  IF s = "" \/ s = "." \/ (s = "/" /\ acc # <<>>)
             THEN NormSegs(acc, rest)
           ELSE IF s = ".."
             THEN IF acc = <<"/">> THEN NormSegs(acc, rest)
                  ELSE IF acc # <<>> /\ acc[Len(acc)] # ".."
                    THEN NormSegs(SubSeq(acc, 1, Len(acc) - 1), rest)
                  ELSE NormSegs(Append(acc, s), rest)
           ELSE NormSegs(Append(acc, s), rest)

\* path.normalize
PathNormalize(p) ==
  LET n == NormSegs(<<>>, p) IN IF n = <<>> THEN <<".">> ELSE n

\* path.join(a, b)
PathJoin(a, b) == PathNormalize(a \o b)

\* path.dirname(p)
PathDirname(p) ==
  IF Len(p) <= 1 THEN (IF IsAbsolute(p) THEN <<"/">> ELSE <<".">>)
  ELSE SubSeq(p, 1, Len(p) - 1)

\* path.resolve(p) in working directory dir
PathResolve(dir, p) ==
  IF IsAbsolute(p) THEN PathNormalize(p) ELSE PathNormalize(dir \o p)

\* ------------------------------------------------------------------- state
VARIABLES
  procEnv,      \* process.env restricted to the option names
  cli,          \* the options given on the command line
  appFile,      \* content of the app-config JSON file
  envFile,      \* content of the env-config JSON file
  extFile,      \* content of the ext-config JSON file: [ok, recs]
  cwd,          \* the process working directory
  pc,           \* position of the top-level script
  stores,       \* nconf's stores, in the order they were registered
  loaded,       \* store name -> the option map the store holds
  filesRead,    \* the config files read so far
  extensions,   \* the variable extensions (line 225): [set, recs]
  outDir,       \* the variable outDir (line 238)
  appConfig,    \* the variable appConfig (line 242)
  envConfig,    \* the variable envConfig (line 251)
  runner,       \* TRUE once CommandRunner() was called (line 259)
  app,          \* the promise App(appConfig): none, pending, ok, failed
  env,          \* the promise Env(envConfig, ...): none, pending, ok, failed
  queue,        \* settled promises whose Q.all callback has not run yet
  countDown,    \* Q.all: promises not yet seen fulfilled
  join,         \* the promise Q.all([...]): [state, reason]
  chain,        \* the promise .then(...) returns: [state, reason]
  locations,    \* how often Locations(app, env, outDir) was computed
  builds,       \* how often env.build(app, locations) was called
  stage,        \* env.build: the stage that runs next, 0 before the build
  probes,       \* CommandRunner invocations made by Env's construction
  buildRuns,    \* CommandRunner invocations made by env.build
  firstFailed,  \* history: the construction that failed first, or none
  out           \* what the run printed and how it ended

inputs == <<procEnv, cli, appFile, envFile, extFile, cwd>>
config == <<stores, loaded, filesRead, extensions, outDir, appConfig, envConfig>>
async == <<runner, app, env, queue, countDown, join, chain, locations, builds, stage,
           probes, buildRuns, firstFailed>>
vars == <<inputs, config, async, pc, out>>

\* ------------------------------------------------------------------- nconf
StoreNames == {"env", "argv", "appConfig", "envConfig"}

\* mutation of InitialStores: nconf.argv(cliOpts).env()
InitialStores_argvFirst == <<"argv", "env">>

\* nconf.env().argv(cliOpts): the environment store is registered before
\* the command-line store
InitialStores == <<"env", "argv">>

\* what the argv store holds: the parsed command line over the defaults
ArgvStore(args) ==
  [k \in Keys |-> IF args[k] # Undef THEN args[k] ELSE CliDefault(k)]

RECURSIVE FirstDefined(_, _, _)
\* the value of key in the first of the stores ss that defines it
FirstDefined(ss, data, key) ==
  IF ss = <<>> THEN Undef
  ELSE IF data[Head(ss)][key] # Undef THEN data[Head(ss)][key]
  ELSE FirstDefined(Tail(ss), data, key)

\* nconf.get(key)
Get(key) == FirstDefined(stores, loaded, key)

\* mutation of AddFile: the new store is consulted before the others
AddFile_front(ss, name) == <<name>> \o ss

\* nconf.file(name, {file: ...}): a new store, registered after the others
AddFile(ss, name) == Append(ss, name)

\* --------------------------------------------------------------- extensions
\* mutation of RewriteJsapi: the paths are resolved in the working directory
RewriteJsapi_cwd(configFile, recs) ==
  [i \in 1..Len(recs) |->
     [name |-> recs[i].name, jsapi |-> PathResolve(cwd, recs[i].jsapi)]]

RECURSIVE RewriteJsapi(_, _)
\* _.each(extensions, ...): every record's jsapi is joined onto the
\* directory of the extensions file
RewriteJsapi(configFile, recs) ==
  IF recs = <<>> THEN <<>>
  ELSE <<[name |-> Head(recs).name,
          jsapi |-> PathJoin(PathDirname(configFile), Head(recs).jsapi)]>>
       \o RewriteJsapi(configFile, Tail(recs))

NoExtensions == [set |-> FALSE, recs |-> <<>>]

\* what the loop over App.CONFIG_DEFAULTS leaves in appConfig.extensions:
\* the value v that nconf holds for the name extensions
FromNconf(v) ==
  IF v = Undef THEN NoExtensions ELSE [set |-> TRUE, recs |-> <<>>, raw |-> v]

\* mutation of SetExtensions: assigned only when an ext-config file was read
SetExtensions_ifRead(cfg, ext) ==
  IF ext.set THEN [cfg EXCEPT !.extensions = ext] ELSE cfg

\* line 248: appConfig.extensions = extensions
SetExtensions(cfg, ext) == [cfg EXCEPT !.extensions = ext]

\* ----------------------------------------------------------------- outcome
NoOutput == [usage |-> FALSE, exitCode |-> -1, artifact |-> FALSE,
             errors |-> 0, stack |-> FALSE, hint |-> FALSE]
Exited == out.exitCode # -1

\* ------------------------------------------------------------------ inputs
FocusKeys == {"outDir", "name", "androidAPILevel"}
Vals == {<<"v1">>, <<"v2">>}
Cwds == {<<"/", "home">>, <<"/", "work", "proj">>}
ExtPaths == {<<"ext.json">>, <<"conf", "ext.json">>, <<"/", "etc", "ext.json">>}
JsapiPaths == {<<"a.js">>, <<"..", "lib", "b.js">>}
ExtNames == {"echo"}
NoFile == <<"no", "file">>
AppConfigPath == <<"app.json">>
EnvConfigPath == <<"env.json">>

RECURSIVE SeqsUpTo(_, _)
\* the sequences over S of length at most n
SeqsUpTo(S, n) ==
  IF n = 0 THEN {<<>>}
  ELSE LET shorter == SeqsUpTo(S, n - 1)
       IN  shorter \cup {Append(q, x) : q \in shorter, x \in S}

ExtRecords == [name : ExtNames, jsapi : JsapiPaths]
ExtContents ==
  {[ok |-> FALSE, recs |-> <<>>]}
    \cup {[ok |-> TRUE, recs |-> r] : r \in SeqsUpTo(ExtRecords, MaxExt)}
NoExtFile == [ok |-> TRUE, recs |-> <<>>]

\* the content of a config file that gives option k the value v
FileWith(k, v) == IF v = NoFile THEN NoOptions ELSE [NoOptions EXCEPT ![k] = v]

\* the command line that names one entry point of the app
EntryArgs(entry) ==
  [k \in Keys |-> IF k \notin entry THEN Undef
                  ELSE IF k = "appUrl" THEN <<"http://example.org/">>
                  ELSE <<"index.html">>]

\* one option supplied by any combination of the four sources
OptionInputs ==
  \E k \in FocusKeys, entry \in {{"appLocalPath"}} :
  \E ev \in Vals \cup {Undef}, cv \in Vals \cup {Undef} :
  \E af \in Vals \cup {Undef, NoFile}, ef \in Vals \cup {Undef, NoFile} :
    /\ procEnv = [NoOptions EXCEPT ![k] = ev]
    /\ cli = [EntryArgs(entry) EXCEPT
                ![k] = cv,
                !["app-config"] = IF af = NoFile THEN Undef ELSE AppConfigPath,
                !["env-config"] = IF ef = NoFile THEN Undef ELSE EnvConfigPath]
    /\ appFile = FileWith(k, af)
    /\ envFile = FileWith(k, ef)
    /\ extFile = NoExtFile

\* the help option, in the environment and on the command line
HelpInputs ==
  \E eh \in {Undef, EmptyString, <<"1">>}, ch \in {Undef, True} :
  \E af \in {Undef, NoFile}, xp \in {Undef, <<"ext.json">>} :
    /\ procEnv = [NoOptions EXCEPT !["help"] = eh]
    /\ cli = [EntryArgs({"appLocalPath"}) EXCEPT
                !["help"] = ch,
                !["app-config"] = IF af = NoFile THEN Undef ELSE AppConfigPath,
                !["ext-config"] = xp]
    /\ appFile = NoOptions
    /\ envFile = NoOptions
    /\ extFile \in {c \in ExtContents : Len(c.recs) = 0}

\* the entry points of the app: none, one or both
EntryInputs ==
  \E entry \in SUBSET {"appLocalPath", "appUrl"} :
    /\ procEnv = NoOptions
    /\ cli = EntryArgs(entry)
    /\ appFile = NoOptions
    /\ envFile = NoOptions
    /\ extFile = NoExtFile

\* an extensions file
ExtInputs ==
  \E xp \in ExtPaths, entry \in {{"appLocalPath"}} :
    /\ procEnv = NoOptions
    /\ cli = [EntryArgs(entry) EXCEPT !["ext-config"] = xp]
    /\ appFile = NoOptions
    /\ envFile = NoOptions
    /\ extFile \in ExtContents

\* a value for the name extensions in the environment, on the command
\* line or in the app-config file, with or without an extensions file
ExtensionsInputs ==
  \E ev \in {Undef, <<"v1">>}, cv \in {Undef, <<"v2">>} :
  \E af \in {NoFile, <<"v1">>}, xp \in {Undef, <<"conf", "ext.json">>} :
    /\ procEnv = [NoOptions EXCEPT !["extensions"] = ev]
    /\ cli = [EntryArgs({"appLocalPath"}) EXCEPT
                !["extensions"] = cv,
                !["app-config"] = IF af = NoFile THEN Undef ELSE AppConfigPath,
                !["ext-config"] = xp]
    /\ appFile = FileWith("extensions", af)
    /\ envFile = NoOptions
    /\ extFile \in IF xp = Undef THEN {NoExtFile} ELSE ExtContents

Init ==
  /\ cwd \in Cwds
  /\ \/ OptionInputs
     \/ HelpInputs
     \/ EntryInputs
     \/ ExtInputs
     \/ ExtensionsInputs
  /\ pc = "parse"
  /\ stores = <<>>
  /\ loaded = [s \in StoreNames |-> NoOptions]
  /\ filesRead = {}
  /\ extensions = NoExtensions
  /\ outDir = Undef
  /\ appConfig = [opts |-> [k \in AppKeys |-> Undef], extensions |-> NoExtensions]
  /\ envConfig = [k \in EnvKeys |-> Undef]
  /\ runner = FALSE
  /\ app = "none"
  /\ env = "none"
  /\ queue = <<>>
  /\ countDown = 0
  /\ join = [state |-> "none", reason |-> "none"]
  /\ chain = [state |-> "none", reason |-> "none"]
  /\ locations = 0
  /\ builds = 0
  /\ stage = 0
  /\ probes = 0
  /\ buildRuns = 0
  /\ firstFailed = "none"
  /\ out = NoOutput

\* ------------------------------------------------- the top-level script
\* line 201: nconf.env().argv(cliOpts)
NconfEnvArgv ==
  /\ pc = "parse"
  /\ stores' = InitialStores
  /\ loaded' = [loaded EXCEPT !["env"] = procEnv, !["argv"] = ArgvStore(cli)]
  /\ pc' = "help"
  /\ UNCHANGED <<inputs, filesRead, extensions, outDir, appConfig, envConfig,
                 async, out>>

\* mutation of HelpRequested: only the command line is asked
HelpRequested_argvOnly == Truthy(loaded["argv"]["help"])

\* line 203: the condition nconf.get('help')
HelpRequested == Truthy(Get("help"))

\* lines 203-206: usage(cliOpts); process.exit(0)
ShowHelp ==
  /\ pc = "help"
  /\ HelpRequested
  /\ out' = [out EXCEPT !.usage = TRUE, !.exitCode = 0]
  /\ pc' = "exited"
  /\ UNCHANGED <<inputs, config, async>>

\* line 203, the condition is falsy
NoHelp ==
  /\ pc = "help"
  /\ ~HelpRequested
  /\ pc' = "appcfg"
  /\ UNCHANGED <<inputs, config, async, out>>

\* lines 209-213: the app-config file becomes a store
LoadAppConfig ==
  /\ pc = "appcfg"
  /\ IF Truthy(Get("app-config"))
       THEN /\ stores' = AddFile(stores, "appConfig")
            /\ loaded' = [loaded EXCEPT !["appConfig"] = appFile]
            /\ filesRead' = filesRead \cup {"app-config"}
       ELSE UNCHANGED <<stores, loaded, filesRead>>
  /\ pc' = "envcfg"
  /\ UNCHANGED <<inputs, extensions, outDir, appConfig, envConfig, async, out>>

\* lines 216-220: the env-config file becomes a store
LoadEnvConfig ==
  /\ pc = "envcfg"
  /\ IF Truthy(Get("env-config"))
       THEN /\ stores' = AddFile(stores, "envConfig")
            /\ loaded' = [loaded EXCEPT !["envConfig"] = envFile]
            /\ filesRead' = filesRead \cup {"env-config"}
       ELSE UNCHANGED <<stores, loaded, filesRead>>
  /\ pc' = "extcfg"
  /\ UNCHANGED <<inputs, extensions, outDir, appConfig, envConfig, async, out>>

\* lines 223-234: the extensions file is read, parsed and rewritten; a
\* file that is no JSON makes JSON.parse throw at the top level of the
\* script, outside every promise: node prints the stack and exits with 1
LoadExtConfig ==
  /\ pc = "extcfg"
  /\ LET configFile == Get("ext-config") IN
       IF ~Truthy(configFile)
         THEN /\ pc' = "outdir"
              /\ UNCHANGED <<extensions, filesRead, out>>
       ELSE IF ~extFile.ok
         THEN /\ pc' = "exited"
              /\ filesRead' = filesRead \cup {"ext-config"}
              /\ out' = [out EXCEPT !.stack = TRUE, !.exitCode = 1]
              /\ UNCHANGED extensions
       ELSE /\ pc' = "outdir"
            /\ filesRead' = filesRead \cup {"ext-config"}
            /\ extensions' = [set |-> TRUE,
                              recs |-> RewriteJsapi(configFile, extFile.recs)]
            /\ UNCHANGED out
  /\ UNCHANGED <<inputs, stores, loaded, outDir, appConfig, envConfig, async>>

\* line 238: outDir = path.resolve(nconf.get('outDir'))
ResolveOutDir ==
  /\ pc = "outdir"
  /\ outDir' = PathResolve(cwd, Get("outDir"))
  /\ pc' = "props"
  /\ UNCHANGED <<inputs, stores, loaded, filesRead, extensions, appConfig,
                 envConfig, async, out>>

\* lines 242-254: appConfig and envConfig are filled from nconf
CollectProps ==
  /\ pc = "props"
  /\ appConfig' = SetExtensions([opts |-> [k \in AppKeys |-> Get(k)],
                                  extensions |-> FromNconf(Get("extensions"))],
                                 extensions)
  /\ envConfig' = [k \in EnvKeys |-> Get(k)]
  /\ pc' = "start"
  /\ UNCHANGED <<inputs, stores, loaded, filesRead, extensions, outDir, async, out>>

\* --------------------------------------------------- App, Env and the join
\* the stages of env.build
NumStages == 6

\* App's validation of the entry point: exactly one of appLocalPath and
\* appUrl is set
AppValid(cfg) ==
  (cfg.opts["appLocalPath"] # Undef) # (cfg.opts["appUrl"] # Undef)

Pending == [state |-> "pending", reason |-> "none"]

\* mutation of QAllStep: the first fulfilment resolves the join
QAllStep_first(j, cd, item) ==
  IF item.status = "failed"
    THEN [join |-> IF j.state = "pending"
                     THEN [state |-> "rejected", reason |-> item.who]
                     ELSE j,
          countDown |-> cd]
    ELSE [join |-> IF j.state = "pending"
                     THEN [state |-> "resolved", reason |-> "none"]
                     ELSE j,
          countDown |-> cd - 1]

\* mutation of QAllStep: a rejection is held back until every promise of
\* the array has settled
QAllStep_waits(j, cd, item) ==
  LET held == IF item.status = "failed" /\ j.reason = "none"
                THEN item.who ELSE j.reason
  IN  [join |-> IF j.state # "pending" THEN j
                ELSE IF cd > 1 THEN [state |-> "pending", reason |-> held]
                ELSE IF held # "none" THEN [state |-> "rejected", reason |-> held]
                ELSE [state |-> "resolved", reason |-> "none"],
       countDown |-> cd - 1]

\* Q.all: the callback registered on each promise of the array.  A
\* fulfilment counts down and the last one resolves the join; a rejection
\* rejects the join with that promise's reason; a settled join stays as it is
QAllStep(j, cd, item) ==
  IF item.status = "failed"
    THEN [join |-> IF j.state = "pending"
                     THEN [state |-> "rejected", reason |-> item.who]
                     ELSE j,
          countDown |-> cd]
    ELSE [join |-> IF j.state = "pending" /\ cd = 1
                     THEN [state |-> "resolved", reason |-> "none"]
                     ELSE j,
          countDown |-> cd - 1]

\* .then(function (objects) ...) runs its callback once the join is resolved
CanProceed == join.state = "resolved"

\* mutation of FailureOutput: the callback returns without process.exit(1)
FailureOutput_noExit(o) ==
  [o EXCEPT !.errors = o.errors + 1, !.stack = TRUE, !.hint = TRUE]

\* mutation of FailureOutput: process.exit(0)
FailureOutput_exitZero(o) ==
  [o EXCEPT !.errors = o.errors + 1, !.stack = TRUE, !.hint = TRUE,
            !.exitCode = 0]

\* the failure callback of .done: the error, the hint and process.exit(1)
FailureOutput(o) ==
  [o EXCEPT !.errors = o.errors + 1, !.stack = TRUE, !.hint = TRUE,
            !.exitCode = 1]

\* the success callback of .done: the path of the apk is printed; nothing
\* is left to run and the process ends with code 0
SuccessOutput(o) == [o EXCEPT !.artifact = TRUE, !.exitCode = 0]

Running == pc = "async" /\ ~Exited

\* lines 259-267: the command runner is made, App and Env are started and
\* Q.all registers its callbacks; the script's top level ends here
StartBuild ==
  /\ pc = "start"
  /\ runner' = TRUE
  /\ app' = "pending"
  /\ env' = "pending"
  /\ countDown' = 2
  /\ join' = Pending
  /\ chain' = Pending
  /\ pc' = "async"
  /\ UNCHANGED <<inputs, config, queue, locations, builds, stage, probes, buildRuns,
                 firstFailed, out>>

\* App(appConfig) settles: rejected when the validation fails
AppSettle ==
  /\ Running
  /\ app = "pending"
  /\ \E st \in {"ok", "failed"} :
       /\ st = "ok" => AppValid(appConfig)
       /\ app' = st
       /\ queue' = Append(queue, [who |-> "app", status |-> st])
       /\ firstFailed' = IF st = "failed" /\ firstFailed = "none"
                           THEN "app" ELSE firstFailed
  /\ UNCHANGED <<inputs, config, runner, env, countDown, join, chain, locations,
                 builds, stage, probes, buildRuns, pc, out>>

\* Env's construction runs a toolchain probe through the command runner
EnvProbe ==
  /\ Running
  /\ env = "pending"
  /\ probes < MaxProbes
  /\ probes' = probes + 1
  /\ UNCHANGED <<inputs, config, runner, app, env, queue, countDown, join,
                 chain, locations, builds, stage, buildRuns, firstFailed, pc, out>>

\* Env(envConfig, {commandRunner: commandRunner}) settles
EnvSettle ==
  /\ Running
  /\ env = "pending"
  /\ \E st \in {"ok", "failed"} :
       /\ env' = st
       /\ queue' = Append(queue, [who |-> "env", status |-> st])
       /\ firstFailed' = IF st = "failed" /\ firstFailed = "none"
                           THEN "env" ELSE firstFailed
  /\ UNCHANGED <<inputs, config, runner, app, countDown, join, chain, locations,
                 builds, stage, probes, buildRuns, pc, out>>

\* Q.all's callback for the promise that settled earliest
QAllCallback ==
  /\ Running
  /\ queue # <<>>
  /\ LET r == QAllStep(join, countDown, Head(queue)) IN
       /\ join' = r.join
       /\ countDown' = r.countDown
  /\ queue' = Tail(queue)
  /\ UNCHANGED <<inputs, config, runner, app, env, chain, locations, builds, stage,
                 probes, buildRuns, firstFailed, pc, out>>

\* lines 269-288: Locations(app, env, outDir), then env.build begins
ThenFulfilled ==
  /\ Running
  /\ CanProceed
  /\ chain.state = "pending"
  /\ locations' = locations + 1
  /\ builds' = builds + 1
  /\ stage' = 1
  /\ chain' = [chain EXCEPT !.state = "building"]
  /\ UNCHANGED <<inputs, config, runner, app, env, queue, countDown, join,
                 probes, buildRuns, firstFailed, pc, out>>

\* .then has no rejection callback: a rejected join rejects the chain
ThenRejected ==
  /\ Running
  /\ join.state = "rejected"
  /\ chain.state = "pending"
  /\ chain' = [state |-> "rejected", reason |-> join.reason]
  /\ UNCHANGED <<inputs, config, runner, app, env, queue, countDown, join,
                 locations, builds, stage, probes, buildRuns, firstFailed, pc, out>>

\* one stage of env.build: an external command that succeeds or fails
BuildStage ==
  /\ Running
  /\ chain.state = "building"
  /\ stage \in 1..NumStages
  /\ buildRuns' = buildRuns + 1
  /\ \E okay \in BOOLEAN :
       IF ~okay
         THEN /\ chain' = [state |-> "rejected", reason |-> "build"]
              /\ UNCHANGED stage
       ELSE /\ stage' = stage + 1
            /\ chain' = IF stage = NumStages
                          THEN [state |-> "fulfilled", reason |-> "none"]
                          ELSE chain
  /\ UNCHANGED <<inputs, config, runner, app, env, queue, countDown, join,
                 locations, builds, probes, firstFailed, pc, out>>

\* lines 291-298
DoneSuccess ==
  /\ Running
  /\ chain.state = "fulfilled"
  /\ out' = SuccessOutput(out)
  /\ pc' = "exited"
  /\ UNCHANGED <<inputs, config, async>>

\* lines 300-308
DoneFailure ==
  /\ Running
  /\ chain.state = "rejected"
  /\ out' = FailureOutput(out)
  /\ pc' = IF out'.exitCode # -1 THEN "exited" ELSE pc
  /\ UNCHANGED <<inputs, config, runner, app, env, queue, countDown, join,
                 locations, builds, stage, probes, buildRuns, firstFailed>>
  /\ chain' = [chain EXCEPT !.state = "handled"]

Next ==
  \/ NconfEnvArgv
  \/ ShowHelp
  \/ NoHelp
  \/ LoadAppConfig
  \/ LoadEnvConfig
  \/ LoadExtConfig
  \/ ResolveOutDir
  \/ CollectProps
  \/ StartBuild
  \/ AppSettle
  \/ EnvProbe
  \/ EnvSettle
  \/ QAllCallback
  \/ ThenFulfilled
  \/ ThenRejected
  \/ BuildStage
  \/ DoneSuccess
  \/ DoneFailure

Spec == Init /\ [][Next]_vars

\* ================================================================= claims
\* appConfig and envConfig are filled
PropsDone == pc = "start" \/ runner

\* the option names whose resolved value the script hands on
OptionKeys == AppKeys \cup EnvKeys \cup {"outDir"}

\* value v is what the script holds for option k
Placed(k, v) ==
  IF k = "outDir" THEN outDir = PathResolve(cwd, v)
  ELSE IF k \in AppKeys THEN appConfig.opts[k] = v
  ELSE envConfig[k] = v

\* what the app-config and env-config files that were registered supply
AppFileValue(k) == IF "app-config" \in filesRead THEN appFile[k] ELSE Undef
EnvFileValue(k) == IF "env-config" \in filesRead THEN envFile[k] ELSE Undef

\* C1: for every option, a value in the environment is the one placed in
\* appConfig/envConfig/outDir whatever the command line and the files say,
\* and without one a command-line value is the one placed whatever the
\* files say
C1_Precedence ==
  PropsDone =>
    \A k \in OptionKeys :
      /\ procEnv[k] # Undef => Placed(k, procEnv[k])
      /\ (procEnv[k] = Undef /\ cli[k] # Undef) => Placed(k, cli[k])

\* C1 witness: environment, command line and app-config file all supply
\* the option, with different values, and the environment's was placed
C1_Witness ==
  /\ PropsDone
  /\ \E k \in OptionKeys :
       /\ procEnv[k] # Undef /\ cli[k] # Undef /\ cli[k] # procEnv[k]
       /\ AppFileValue(k) # Undef /\ AppFileValue(k) # procEnv[k]
       /\ Placed(k, procEnv[k])

\* C7: a declared default is the resolved value only when no source
\* supplies the option: a value that only a JSON config file supplies is
\* placed instead of the default
C7_DefaultOnlyWhenUnsupplied ==
  PropsDone =>
    \A k \in OptionKeys :
      (/\ CliDefault(k) # Undef
       /\ procEnv[k] = Undef /\ cli[k] = Undef
       /\ (AppFileValue(k) # Undef \/ EnvFileValue(k) # Undef))
      => \/ Placed(k, AppFileValue(k))
         \/ Placed(k, EnvFileValue(k))

\* C8 as stated: an option without a default that both files supply, and
\* neither the environment nor the command line, resolves to the value of
\* the file registered last, env-config
C8_LastRegisteredFileWins ==
  PropsDone =>
    \A k \in OptionKeys :
      (/\ CliDefault(k) = Undef
       /\ procEnv[k] = Undef /\ cli[k] = Undef
       /\ AppFileValue(k) # Undef /\ EnvFileValue(k) # Undef)
      => Placed(k, EnvFileValue(k))

\* C8 amended: such an option resolves to the value of the file registered
\* first, app-config
C8_FirstRegisteredFileWins ==
  PropsDone =>
    \A k \in OptionKeys :
      (/\ CliDefault(k) = Undef
       /\ procEnv[k] = Undef /\ cli[k] = Undef
       /\ AppFileValue(k) # Undef /\ EnvFileValue(k) # Undef)
      => Placed(k, AppFileValue(k))

\* C8 witness: both files give the option, with different values, no other
\* source does, and app-config's value was placed
C8_Witness ==
  /\ PropsDone
  /\ \E k \in OptionKeys :
       /\ CliDefault(k) = Undef
       /\ procEnv[k] = Undef /\ cli[k] = Undef
       /\ AppFileValue(k) # Undef /\ EnvFileValue(k) # Undef
       /\ AppFileValue(k) # EnvFileValue(k)
       /\ Placed(k, AppFileValue(k))

\* the JavaScript value of an option after nconf.env().argv(cliOpts), as
\* the inputs decide it
Given(k) == IF procEnv[k] # Undef THEN procEnv[k] ELSE cli[k]

\* the run showed the usage text and ended at once
HelpStops ==
  /\ pc = "exited" /\ out.usage /\ out.exitCode = 0
  /\ filesRead = {}
  /\ ~runner /\ app = "none" /\ env = "none"
  /\ locations = 0 /\ builds = 0 /\ buildRuns = 0

\* C9 as stated: with the help option on the command line the run prints
\* the usage text and exits with 0 before a config file is read, a
\* descriptor constructed, the command runner made or a build run
C9_HelpOnCommandLineStops ==
  (Truthy(cli["help"]) /\ pc \notin {"parse", "help"}) => HelpStops

\* C9 amended: the run does so when the help option as nconf resolves it,
\* the environment before the command line, is truthy
C9_ResolvedHelpStops ==
  (Truthy(Given("help")) /\ pc \notin {"parse", "help"}) => HelpStops

\* C9 witness: help on the command line beside an app-config and an
\* ext-config file, and the run stopped without reading either
C9_Witness ==
  /\ Truthy(cli["help"]) /\ procEnv["help"] = Undef
  /\ cli["app-config"] # Undef /\ cli["ext-config"] # Undef
  /\ HelpStops

\* C10: once App is started with an ext-config file given, appConfig holds
\* one extension per record of the file, in order, whose jsapi is
\* join(dirname(file), jsapi of the record), whatever the working directory
C10_JsapiRewritten ==
  (app # "none" /\ Truthy(Given("ext-config"))) =>
    LET recs == appConfig.extensions.recs IN
      /\ appConfig.extensions.set
      /\ Len(recs) = Len(extFile.recs)
      /\ \A i \in 1..Len(recs) :
           /\ recs[i].name = extFile.recs[i].name
           /\ recs[i].jsapi =
                PathJoin(PathDirname(Given("ext-config")), extFile.recs[i].jsapi)

\* C10 witness: conf/ext.json lists a.js and ../lib/b.js, and App is
\* handed conf/a.js and lib/b.js
C10_Witness ==
  /\ app # "none"
  /\ Given("ext-config") = <<"conf", "ext.json">>
  /\ Len(extFile.recs) = 2
  /\ extFile.recs[1].jsapi = <<"a.js">>
  /\ extFile.recs[2].jsapi = <<"..", "lib", "b.js">>
  /\ appConfig.extensions.recs[1].jsapi = <<"conf", "a.js">>
  /\ appConfig.extensions.recs[2].jsapi = <<"lib", "b.js">>

\* C2: Locations is computed and env.build called at most once, and only
\* with both App and Env constructed
C2_BuildAfterBoth ==
  /\ locations <= 1 /\ builds <= 1
  /\ (locations > 0 \/ builds > 0 \/ stage > 0 \/ buildRuns > 0)
       => (app = "ok" /\ env = "ok")

\* C2 witness: the build runs, both constructions having succeeded
C2_Witness ==
  /\ locations = 1 /\ builds = 1 /\ buildRuns > 0
  /\ app = "ok" /\ env = "ok"

\* C3: in a run where App's construction fails its validation because
\* appLocalPath and appUrl are both set, the command runner is never invoked
C3_NoSpawnWhenAppFails ==
  (/\ app = "failed"
   /\ appConfig.opts["appLocalPath"] # Undef
   /\ appConfig.opts["appUrl"] # Undef)
  => (probes = 0 /\ buildRuns = 0)

\* the steps that carry a failed construction to the failure callback
FailurePath == QAllCallback \/ ThenRejected \/ DoneFailure

\* C4: the first construction to fail is the one the error callback
\* reports, once; its report does not wait for the other construction, and
\* whatever the other does, no Locations, no build and no success follow
C4_FirstFailureSurfaces ==
  /\ out.errors <= 1
  /\ firstFailed # "none" =>
       /\ locations = 0 /\ builds = 0 /\ buildRuns = 0 /\ ~out.artifact
       /\ join.state \in {"pending", "rejected"}
       /\ join.state = "rejected" => join.reason = firstFailed
       /\ chain.state \in {"pending", "rejected", "handled"}
       /\ chain.state \in {"rejected", "handled"} => chain.reason = firstFailed
       /\ Running => ENABLED FailurePath
       /\ Exited => (out.errors = 1 /\ out.exitCode = 1)

\* C4 witness: App failed, the error was reported and the process left
\* while Env was still pending
C4_Witness ==
  /\ firstFailed = "app" /\ env = "pending"
  /\ Exited /\ out.errors = 1

\* C5: once Env's construction has failed the run fails, whether App
\* succeeded, failed or is pending: no Locations, no build, no success, and
\* the run ends in the error callback with exit code 1
C5_EnvFailureFailsRun ==
  env = "failed" =>
    /\ locations = 0 /\ builds = 0 /\ buildRuns = 0
    /\ ~out.artifact /\ out.exitCode # 0
    /\ Running => ENABLED FailurePath
    /\ Exited => (out.errors = 1 /\ out.hint /\ out.exitCode = 1)

\* C5 witness: Env failed after App succeeded, and the run ended with 1
C5_Witness ==
  /\ env = "failed" /\ app = "ok" /\ firstFailed = "env"
  /\ Exited /\ out.exitCode = 1 /\ out.errors = 1

\* C6: a run that does not show the help ends either with exit code 0 and
\* the path of the apk printed, or with a code other than 0, a diagnostic
\* and the hint to call the script with --help
C6_EndsOneOfTwoWays ==
  (pc = "exited" /\ ~out.usage) =>
    \/ (out.exitCode = 0 /\ out.artifact)
    \/ (out.exitCode # 0 /\ out.stack /\ out.hint)

\* C11 as stated: after a construction has failed and the failure was
\* reported, the other construction, if still pending, is not cut off: it
\* can still settle
C11_OtherRunsToCompletion ==
  out.errors > 0 =>
    /\ app = "pending" => ENABLED AppSettle
    /\ env = "pending" => ENABLED EnvSettle

\* C11 amended: the join fails fast and does not itself cut the other
\* construction off, which can settle as long as the failure is not yet
\* reported; the failure callback ends the process, and a construction
\* still pending then takes no further step and never settles
C11_OtherRunsUntilExit ==
  /\ (firstFailed # "none" /\ out.errors = 0) =>
       /\ app = "pending" => ENABLED AppSettle
       /\ env = "pending" => ENABLED EnvSettle
  /\ out.errors > 0 =>
       /\ Exited /\ out.exitCode = 1
       /\ ~ENABLED (AppSettle \/ EnvProbe \/ EnvSettle)

\* C11 witness: Env failed, the failure was reported and the process left
\* with App's construction pending and no step of it enabled
C11_Witness ==
  /\ firstFailed = "env" /\ app = "pending"
  /\ out.errors = 1 /\ Exited
  /\ ~ENABLED AppSettle

\* C12: what App is handed as extensions is decided by the ext-config file
\* alone: the rewritten records of the file when ext-config is set, null
\* otherwise; a value that the environment, the command line or the
\* app-config file gives for the name extensions never reaches App
C12_ExtensionsFromExtConfigOnly ==
  app # "none" =>
    LET e == appConfig.extensions IN
      /\ DOMAIN e = {"set", "recs"}
      /\ e.set = Truthy(Given("ext-config"))
      /\ ~e.set => e = NoExtensions
      /\ e.set =>
           /\ Len(e.recs) = Len(extFile.recs)
           /\ \A i \in 1..Len(e.recs) :
                e.recs[i] =
                  [name |-> extFile.recs[i].name,
                   jsapi |-> PathJoin(PathDirname(Given("ext-config")),
                                      extFile.recs[i].jsapi)]

\* C12 witness: environment, command line and app-config file all give a
\* value for extensions, no ext-config is set, and App is handed null
C12_Witness ==
  /\ app # "none"
  /\ procEnv["extensions"] # Undef /\ cli["extensions"] # Undef
  /\ AppFileValue("extensions") # Undef
  /\ ~Truthy(Given("ext-config"))
  /\ appConfig.extensions = NoExtensions

====
